---- MODULE Spec2Model ----
(***************************************************************************)
(* wol-cli: parsing of an EUI-48 address, construction of the Wake-on-LAN  *)
(* magic packet and its UDP broadcast (src/src/wol.rs, src/src/main.rs).   *)
(*                                                                         *)
(* A Rust char is modelled by its Unicode scalar value, a &str by the      *)
(* sequence of its chars.  A u64 is modelled by its 16 hexadecimal digits, *)
(* most significant first, because the 48-bit values of the program exceed *)
(* 32-bit integer arithmetic; shifts by multiples of four bits and the     *)
(* masks 0xF and 0xFF are exact on that representation.                    *)
(***************************************************************************)
EXTENDS Integers, Sequences, FiniteSets, TLC

VARIABLES mac, pc, result, trace, syscalls, datagrams, io, output

vars == <<mac, pc, result, trace, syscalls, datagrams, io, output>>

---------------------------------------------------------------------------
(* Characters and strings                                                  *)

Hyphen == 45
Colon == 58

\* char::len_utf8: the number of bytes of the UTF-8 encoding of a char
len_utf8(c) ==
    IF c < 128 THEN 1 ELSE IF c < 2048 THEN 2 ELSE IF c < 65536 THEN 3 ELSE 4

\* str::len: the length of a string in bytes, not in chars
RECURSIVE str_len(_)
str_len(s) == IF s = <<>> THEN 0 ELSE len_utf8(Head(s)) + str_len(Tail(s))

\* Variant: the upper-case letters are not taken for digits
is_ascii_lower_hexdigit(c) == c \in (48..57) \cup (97..102)

\* char::is_ascii_hexdigit: '0'..'9', 'A'..'F', 'a'..'f'
is_ascii_hexdigit(c) == c \in (48..57) \cup (65..70) \cup (97..102)

None == [some |-> FALSE]
Some(v) == [some |-> TRUE, val |-> v]

\* char::to_digit(radix)
to_digit(c, radix) ==
    LET d == IF c \in 48..57 THEN c - 48
             ELSE IF c \in 65..90 THEN c - 65 + 10
             ELSE IF c \in 97..122 THEN c - 97 + 10
             ELSE radix
    IN  IF d < radix THEN Some(d) ELSE None

\* input.chars().filter(|x| x.is_ascii_hexdigit())
hexdigits(input) == SelectSeq(input, is_ascii_hexdigit)

---------------------------------------------------------------------------
(* Eui48 = u64, as 16 hexadecimal digits, most significant first           *)

Eui48Zero == [k \in 1..16 |-> 0]

\* Variant: eui << 8 | nibble, a shift of a whole byte for each digit
shl8_or(eui, nibble) == Tail(Tail(eui)) \o <<0, nibble % 16>>

\* eui << 4 | (nibble as u64 & 0xF), in 64 bits: the top four bits fall off
shl4_or(eui, nibble) == Tail(eui) \o <<nibble % 16>>

\* (mac >> shift & 0xFF) as u8, for a shift that is a multiple of 4 below 60
shr_byte(eui, shift) == 16 * eui[15 - shift \div 4] + eui[16 - shift \div 4]

---------------------------------------------------------------------------
(* ParseError and Result                                                   *)

InvalidLength == [kind |-> "InvalidLength"]
ExpectedHyphen(index) == [kind |-> "ExpectedHyphen", pos |-> index]

Ok(v) == [tag |-> "Ok", val |-> v]
Err(e) == [tag |-> "Err", err |-> e]

---------------------------------------------------------------------------
(* parse_eui48                                                             *)

\* while let Some((index, c)) = it.nth(2): `consumed` chars have been taken
\* from the enumerated iterator; nth(2) drops two and yields the third, or
\* None when fewer than three remain. Returns the error, if any, and the
\* indices the loop looked at.
RECURSIVE scan_hyphens(_, _, _)
scan_hyphens(input, consumed, seen) ==
    LET index == consumed + 2 IN
    IF index >= Len(input)
    THEN [err |-> None, scanned |-> seen]
    ELSE IF input[index + 1] # Hyphen
         THEN [err |-> Some(ExpectedHyphen(index)), scanned |-> Append(seen, index)]
         ELSE scan_hyphens(input, index + 1, Append(seen, index))

\* for c in input.chars().filter(..) { nibble = c.to_digit(16).ok_or(..)?; .. }
RECURSIVE accumulate(_, _)
accumulate(digits, eui) ==
    IF digits = <<>>
    THEN [res |-> Ok(eui), site |-> "return", eui |-> Some(eui)]
    ELSE LET nibble == to_digit(Head(digits), 16) IN
         IF ~nibble.some
         THEN [res |-> Err(InvalidLength), site |-> "to_digit", eui |-> Some(eui)]
         ELSE accumulate(Tail(digits), shl4_or(eui, nibble.val))

\* Variant: the hyphen loop runs before the digits are counted
parse_eui48_hyphens_first(input) ==
    IF str_len(input) # 17
    THEN [res |-> Err(InvalidLength), site |-> "length", scanned |-> <<>>,
          eui |-> None]
    ELSE LET scan == scan_hyphens(input, 0, <<>>) IN
         IF scan.err.some
         THEN [res |-> Err(scan.err.val), site |-> "hyphen",
               scanned |-> scan.scanned, eui |-> None]
         ELSE IF Len(hexdigits(input)) # 12
         THEN [res |-> Err(InvalidLength), site |-> "digits",
               scanned |-> scan.scanned, eui |-> None]
         ELSE LET acc == accumulate(hexdigits(input), Eui48Zero) IN
              [res |-> acc.res, site |-> acc.site, scanned |-> scan.scanned,
               eui |-> acc.eui]

\* Variant: the digits are not counted
parse_eui48_uncounted(input) ==
    IF str_len(input) # 17
    THEN [res |-> Err(InvalidLength), site |-> "length", scanned |-> <<>>,
          eui |-> None]
    ELSE LET scan == scan_hyphens(input, 0, <<>>) IN
         IF scan.err.some
         THEN [res |-> Err(scan.err.val), site |-> "hyphen",
               scanned |-> scan.scanned, eui |-> None]
         ELSE LET acc == accumulate(hexdigits(input), Eui48Zero) IN
              [res |-> acc.res, site |-> acc.site, scanned |-> scan.scanned,
               eui |-> acc.eui]

\* The result of parse_eui48 together with the place it returned from, the
\* indices its hyphen loop inspected and the value of `eui` when it returned.
parse_eui48(input) ==
    IF str_len(input) # 17
    THEN [res |-> Err(InvalidLength), site |-> "length", scanned |-> <<>>,
          eui |-> None]
    ELSE IF Len(hexdigits(input)) # 12
    THEN [res |-> Err(InvalidLength), site |-> "digits", scanned |-> <<>>,
          eui |-> None]
    ELSE LET scan == scan_hyphens(input, 0, <<>>) IN
         IF scan.err.some
         THEN [res |-> Err(scan.err.val), site |-> "hyphen",
               scanned |-> scan.scanned, eui |-> None]
         ELSE LET acc == accumulate(hexdigits(input), Eui48Zero) IN
              [res |-> acc.res, site |-> acc.site, scanned |-> scan.scanned,
               eui |-> acc.eui]

---------------------------------------------------------------------------
(* create_magic_packet                                                     *)

MAGIC_PACKET_LEN == 102

\* Variant: only the first ':' is rewritten
RECURSIVE mac_with_first_hyphen(_)
mac_with_first_hyphen(s) ==
    IF s = <<>> THEN <<>>
    ELSE IF Head(s) = Colon THEN <<Hyphen>> \o Tail(s)
    ELSE <<Head(s)>> \o mac_with_first_hyphen(Tail(s))

\* .chars().map(|c| match c { ':' => '-', _ => c }).collect::<String>()
mac_with_hyphens(s) == [k \in 1..Len(s) |-> IF s[k] = Colon THEN Hyphen ELSE s[k]]

\* Variant: mac >> (j * 8), the least significant octet first
fill_slot_reversed(packet, eui, dst) ==
    [o \in DOMAIN packet |->
        IF o - dst \in 0..5 THEN shr_byte(eui, (o - dst) * 8) ELSE packet[o]]

\* for j in 0..6 { packet[dst + j] = (mac >> 40 - (j * 8) & 0xFF) as u8; }
\* The six writes of one slot: offset o is written when o = dst + j, j in 0..5.
fill_slot(packet, eui, dst) ==
    [o \in DOMAIN packet |->
        IF o - dst \in 0..5 THEN shr_byte(eui, 40 - ((o - dst) * 8)) ELSE packet[o]]

\* for i in 1..17 { let dst = i * 6; .. }
RECURSIVE fill_packet(_, _, _)
fill_packet(packet, eui, i) ==
    IF i >= 17 THEN packet
    ELSE fill_packet(fill_slot(packet, eui, i * 6), eui, i + 1)

\* Variant: a parse error is dropped and the buffer returned as it stands
create_magic_packet_unchecked(s) ==
    LET packet == [o \in 0..(MAGIC_PACKET_LEN - 1) |-> 255]
        parsed == parse_eui48(mac_with_hyphens(s))
    IN  IF parsed.res.tag = "Err"
        THEN [res |-> Ok(packet), site |-> parsed.site,
              scanned |-> parsed.scanned, eui |-> parsed.eui]
        ELSE [res |-> Ok(fill_packet(packet, parsed.res.val, 1)),
              site |-> parsed.site, scanned |-> parsed.scanned, eui |-> parsed.eui]

\* The packet is a byte array indexed from 0.
create_magic_packet(s) ==
    LET packet == [o \in 0..(MAGIC_PACKET_LEN - 1) |-> 255]
        parsed == parse_eui48(mac_with_hyphens(s))
    IN  IF parsed.res.tag = "Err"
        THEN [res |-> Err(parsed.res.err), site |-> parsed.site,
              scanned |-> parsed.scanned, eui |-> parsed.eui]
        ELSE [res |-> Ok(fill_packet(packet, parsed.res.val, 1)),
              site |-> parsed.site, scanned |-> parsed.scanned, eui |-> parsed.eui]

---------------------------------------------------------------------------
(* The addresses given on the command line                                 *)

\* The number of chars of a well-formed address that an input may differ in.
MaxEdits == 2

\* "01:23-45:67-89:aB"
Bases ==
    { <<48, 49, 58, 50, 51, 45, 52, 53, 58, 54, 55, 45, 56, 57, 58, 97, 66>> }

\* What a char of a base may be replaced by: nothing, '-', 'b',
\* U+00E9 (two bytes in UTF-8)
Replacements == { <<>>, <<45>>, <<98>>, <<233>> }

RECURSIVE Edits(_, _, _)
Edits(s, k, n) ==
    IF k > Len(s) THEN { <<>> }
    ELSE LET keep == { <<s[k]>> \o t : t \in Edits(s, k + 1, n) } IN
         IF n = 0 THEN keep
         ELSE keep \cup { r \o t : r \in Replacements, t \in Edits(s, k + 1, n - 1) }

\* The strings of the tests of wol.rs, and strings whose byte count and char
\* count differ.
Fixed ==
    { <<>>,
      <<65, 65, 45, 97, 97, 58, 97, 97, 45, 97, 97, 45, 97, 97, 45, 97, 97>>,
      <<97, 58, 45, 50, 51, 45, 52, 53, 45, 54, 55, 45, 56, 57, 45, 97, 98>>,
      <<104, 101, 108, 108, 111>>,
      <<104, 101, 45, 106, 115, 45, 97, 110, 45, 99, 99, 45, 100, 100, 45, 101, 101>>,
      <<97, 98, 45, 99, 100>>,
      <<97, 98, 45, 99, 100, 45, 97, 98, 45, 99, 100, 45, 97, 98, 45, 99, 100, 45,
        97, 98, 45, 99, 100, 45, 97, 98>>,
      <<45, 45, 45, 45, 45, 97, 98, 97, 98, 97, 98, 97, 98, 97, 98, 97, 98>>,
      <<65, 65, 45, 97, 97, 45, 97, 97, 45, 97, 97, 45, 97, 97, 45, 97, 97>>,
      <<48, 49, 50, 51, 52, 53, 54, 55, 56, 57, 97, 98, 45, 45, 8364>>,
      <<48, 49, 50, 51, 52, 53, 54, 55, 56, 57, 97, 98, 45, 128512>>,
      <<32, 49, 45, 50, 51, 45, 52, 53, 45, 54, 55, 45, 56, 57, 45, 97, 98>>,
      <<48, 49, 45, 50, 51, 45, 52, 53, 45, 54, 55, 45, 56, 57, 45, 97, 98, 99>> }

Inputs == Fixed \cup UNION { Edits(b, 1, MaxEdits) : b \in Bases }

---------------------------------------------------------------------------
(* main and MagicPacket::broadcast                                         *)

NoResult == [tag |-> "None"]
NoTrace == [site |-> "none", scanned |-> <<>>, eui |-> None]

Init ==
    /\ mac \in Inputs
    /\ pc = "main"
    /\ result = NoResult
    /\ trace = NoTrace
    /\ syscalls = <<>>
    /\ datagrams = <<>>
    /\ io = "none"
    /\ output = "none"

\* match wol::create_magic_packet(&args.mac)
Create ==
    /\ pc = "main"
    /\ LET r == create_magic_packet(mac) IN
       /\ result' = r.res
       /\ trace' = [site |-> r.site, scanned |-> r.scanned, eui |-> r.eui]
       /\ pc' = IF r.res.tag = "Ok" THEN "bind" ELSE "report"
    /\ UNCHANGED <<mac, syscalls, datagrams, io, output>>

\* Err(err) => eprintln!("unable to create magic packet: {}", err)
ReportParseError ==
    /\ pc = "report"
    /\ output' = "unable to create magic packet"
    /\ pc' = "exit"
    /\ UNCHANGED <<mac, result, trace, syscalls, datagrams, io>>

\* let socket = UdpSocket::bind("0.0.0.0:0")?;
Bind ==
    /\ pc = "bind"
    /\ \E ok \in BOOLEAN :
         /\ syscalls' = Append(syscalls, [op |-> "bind", addr |-> <<0, 0, 0, 0>>,
                                          port |-> 0, ok |-> ok])
         /\ io' = IF ok THEN io ELSE "Err"
         /\ pc' = IF ok THEN "set_broadcast" ELSE "returned"
    /\ UNCHANGED <<mac, result, trace, datagrams, output>>

\* Variant: the result of set_broadcast is not looked at
SetBroadcast_unchecked ==
    /\ pc = "set_broadcast"
    /\ \E ok \in BOOLEAN :
         syscalls' = Append(syscalls, [op |-> "set_broadcast", on |-> TRUE, ok |-> ok])
    /\ pc' = "send_to"
    /\ UNCHANGED <<mac, result, trace, datagrams, io, output>>

\* socket.set_broadcast(true)?;
SetBroadcast ==
    /\ pc = "set_broadcast"
    /\ \E ok \in BOOLEAN :
         /\ syscalls' = Append(syscalls, [op |-> "set_broadcast", on |-> TRUE, ok |-> ok])
         /\ io' = IF ok THEN io ELSE "Err"
         /\ pc' = IF ok THEN "send_to" ELSE "returned"
    /\ UNCHANGED <<mac, result, trace, datagrams, output>>

\* socket.send_to(&self.0, "255.255.255.255:9")?; Ok(())
SendTo ==
    /\ pc = "send_to"
    /\ \E ok \in BOOLEAN :
         /\ syscalls' = Append(syscalls, [op |-> "send_to", addr |-> <<255, 255, 255, 255>>,
                                          port |-> 9, ok |-> ok])
         /\ datagrams' = IF ok
                         THEN Append(datagrams, [addr |-> <<255, 255, 255, 255>>,
                                                 port |-> 9, payload |-> result.val])
                         ELSE datagrams
         /\ io' = IF ok THEN "Ok" ELSE "Err"
         /\ pc' = "returned"
    /\ UNCHANGED <<mac, result, trace, output>>

\* packet.broadcast().expect("unable to send packet"); println!(..)
Expect ==
    /\ pc = "returned"
    /\ output' = IF io = "Ok" THEN "packet sent" ELSE "panic: unable to send packet"
    /\ pc' = "exit"
    /\ UNCHANGED <<mac, result, trace, syscalls, datagrams, io>>

Next == Create \/ ReportParseError \/ Bind \/ SetBroadcast \/ SendTo \/ Expect

Spec == Init /\ [][Next]_vars

---------------------------------------------------------------------------
(* Vocabulary of the properties: the notation of an EUI-48 address, stated *)
(* without the operators of the program                                    *)

\* The written forms of the hexadecimal digit of value v
Glyphs(v) == IF v < 10 THEN {48 + v} ELSE {97 + (v - 10), 65 + (v - 10)}
IsHexChar(c) == \E v \in 0..15 : c \in Glyphs(v)
HexVal(c) == CHOOSE v \in 0..15 : c \in Glyphs(v)
HexChars(s) == SelectSeq(s, IsHexChar)

\* s with every ':' rewritten to '-'
Dashed(s) == [k \in 1..Len(s) |-> IF s[k] = 58 THEN 45 ELSE s[k]]

\* s with the letters A-F in lower case, and with the letters a-f in upper case
Lower(s) == [k \in 1..Len(s) |-> IF s[k] \in 65..70 THEN s[k] + 32 ELSE s[k]]
Upper(s) == [k \in 1..Len(s) |-> IF s[k] \in 97..102 THEN s[k] - 32 ELSE s[k]]

SeparatorPositions == {2, 5, 8, 11, 14}

\* The separator positions (0-indexed) of s that hold a char other than '-'
BadPositions(s) == {p \in SeparatorPositions : p < Len(s) /\ s[p + 1] # 45}
Least(S) == CHOOSE p \in S : \A q \in S : p <= q

\* XX-XX-XX-XX-XX-XX
WellFormed(s) ==
    /\ Len(s) = 17
    /\ \A p \in 0..16 : IF p \in SeparatorPositions THEN s[p + 1] = 45
                        ELSE IsHexChar(s[p + 1])

\* The hexadecimal digit of a 64-bit value that occupies bits low .. low+3
NibbleAt(eui, low) == eui[16 - low \div 4]

\* The magic packet of the address written as s: six 0xFF, then sixteen times
\* the six octets in the order they are written
MagicOf(s) ==
    LET d == HexChars(s)
        octet == [j \in 0..5 |-> 16 * HexVal(d[2 * j + 1]) + HexVal(d[2 * j + 2])]
    IN  [o \in 0..101 |-> IF o < 6 THEN 255 ELSE octet[o % 6]]

Created == result # NoResult
Accepted == Created /\ result.tag = "Ok"
Rejected == Created /\ result.tag = "Err"

---------------------------------------------------------------------------
(* Properties                                                              *)

\* C1: every input whose number of chars (after ':' -> '-') is not 17 fails
\* with InvalidLength, never with ExpectedHyphen and never with success.
C1_NotSeventeenCharsIsInvalidLength ==
    (Created /\ Len(Dashed(mac)) # 17) => result = Err(InvalidLength)

\* C1, the part the code keeps: an input whose number of chars is not 17 is
\* never accepted.
C1_NotSeventeenCharsIsRejected ==
    (Created /\ Len(Dashed(mac)) # 17) => result.tag = "Err"

\* C2: a string of 17 chars with fewer or more than 12 hexadecimal digits fails
\* with InvalidLength, also when a separator position holds a non-hyphen.
C2_DigitCountBeforeHyphens ==
    (Created /\ Len(Dashed(mac)) = 17 /\ Len(HexChars(Dashed(mac))) # 12)
        => /\ result = Err(InvalidLength)
           /\ trace.scanned = <<>>

C2_Witness ==
    /\ Rejected
    /\ Len(Dashed(mac)) = 17
    /\ Len(HexChars(Dashed(mac))) # 12
    /\ BadPositions(Dashed(mac)) # {}
    /\ trace.site = "digits"

\* C3: a string of 17 chars with exactly 12 hexadecimal digits and a non-hyphen
\* at one of the positions 2, 5, 8, 11, 14 fails with ExpectedHyphen(p), p the
\* least such position; the scan looks at those positions only, in order.
C3_FirstMisplacedHyphen ==
    LET s == Dashed(mac) IN
    (Created /\ Len(s) = 17 /\ Len(HexChars(s)) = 12 /\ BadPositions(s) # {})
        => /\ result = Err(ExpectedHyphen(Least(BadPositions(s))))
           /\ trace.scanned =
                SelectSeq(<<2, 5, 8, 11, 14>>, LAMBDA p : p <= Least(BadPositions(s)))

\* C3 for the strings whose 17 chars are 17 bytes: there the claim holds.
C3_FirstMisplacedHyphenOfSeventeenBytes ==
    LET s == Dashed(mac) IN
    (Created /\ Len(s) = 17 /\ str_len(s) = 17 /\ Len(HexChars(s)) = 12
        /\ BadPositions(s) # {})
        => /\ result = Err(ExpectedHyphen(Least(BadPositions(s))))
           /\ trace.scanned =
                SelectSeq(<<2, 5, 8, 11, 14>>, LAMBDA p : p <= Least(BadPositions(s)))

\* The scan never looks outside 2, 5, 8, 11, 14 and a reported position is one
\* of them.
C3_ScanStaysOnSeparators ==
    Created => /\ \A k \in 1..Len(trace.scanned) : trace.scanned[k] = 3 * k - 1
               /\ Len(trace.scanned) <= 5
               /\ (result.tag = "Err" /\ result.err.kind = "ExpectedHyphen")
                    => result.err.pos \in SeparatorPositions

\* C4: the outcome for an input is the outcome for the input with every ':'
\* replaced by '-'; an address with any mixture of ':' and '-' at the
\* separator positions is accepted, with the packet of its all-hyphen form.
C4_SeparatorNormalization ==
    Created =>
        /\ result = create_magic_packet(Dashed(mac)).res
        /\ WellFormed(Dashed(mac)) => result = Ok(MagicOf(Dashed(mac)))

C4_Witness ==
    /\ Accepted
    /\ \E k \in 1..Len(mac) : mac[k] = 58
    /\ \E k \in 1..Len(mac) : mac[k] = 45

\* C5: the parsed value is the 12 digits read most significant first: digit i
\* occupies bits 44-4i .. 47-4i, and nothing lies above bit 47.
C5_DigitsMostSignificantFirst ==
    Accepted =>
        /\ trace.eui.some
        /\ Len(HexChars(mac)) = 12
        /\ \A i \in 0..11 : NibbleAt(trace.eui.val, 44 - 4 * i) = HexVal(HexChars(mac)[i + 1])
        /\ \A low \in {48, 52, 56, 60} : NibbleAt(trace.eui.val, low) = 0

C5_Witness ==
    /\ Accepted
    /\ \E i, j \in 1..12 : HexVal(HexChars(mac)[i]) # HexVal(HexChars(mac)[j])

\* C6: the packet is 102 bytes, bytes 0..5 are 0xFF, and the byte at
\* slot*6 + j is (M >> (40 - 8j)) & 0xFF for slot 1..16, j 0..5: sixteen times
\* the octets in the order they are written.
C6_PacketLayout ==
    Accepted =>
        LET M == trace.eui.val
            pkt == result.val
            d == HexChars(mac)
            octet == [j \in 0..5 |-> 16 * HexVal(d[2 * j + 1]) + HexVal(d[2 * j + 2])]
        IN  /\ DOMAIN pkt = 0..101
            /\ \A o \in 0..5 : pkt[o] = 255
            /\ \A slot \in 1..16 : \A j \in 0..5 :
                 /\ pkt[slot * 6 + j]
                      = 16 * NibbleAt(M, 44 - 8 * j) + NibbleAt(M, 40 - 8 * j)
                 /\ pkt[slot * 6 + j] = octet[j]

C6_Witness ==
    /\ Accepted
    /\ result.val[6] # result.val[11]
    /\ \A j \in 0..5 : result.val[6 + j] = result.val[96 + j]

\* C7: broadcast does bind(0.0.0.0:0), set_broadcast, send_to(255.255.255.255:9)
\* in that order, each at most once, stops at the first failure, sends at
\* most one datagram, of the 102 bytes, and returns Ok only when send_to did.
C7_BroadcastOrder ==
    LET n == Len(syscalls) IN
    /\ n <= 3
    /\ \A k \in 1..n : syscalls[k].op = <<"bind", "set_broadcast", "send_to">>[k]
    /\ \A k \in 1..(n - 1) : syscalls[k].ok
    /\ n >= 1 => (syscalls[1].addr = <<0, 0, 0, 0>> /\ syscalls[1].port = 0)
    /\ n >= 3 => (syscalls[3].addr = <<255, 255, 255, 255>> /\ syscalls[3].port = 9)
    /\ Len(datagrams) <= 1
    /\ datagrams # <<>> =>
         /\ n = 3 /\ \A k \in 1..3 : syscalls[k].ok
         /\ datagrams[1].addr = <<255, 255, 255, 255>> /\ datagrams[1].port = 9
         /\ datagrams[1].payload = result.val
         /\ DOMAIN datagrams[1].payload = 0..101
    /\ io = "Ok" <=> (n = 3 /\ syscalls[3].ok)
    /\ io = "Err" <=> (n >= 1 /\ ~syscalls[n].ok)
    /\ (pc \in {"returned", "exit"} /\ Accepted) => io \in {"Ok", "Err"}

C7_Witness ==
    /\ io = "Ok"
    /\ Len(datagrams) = 1
    /\ Len(syscalls) = 3

\* C8: after a ParseError there is no packet, no socket and no datagram; a
\* datagram that is sent is the complete magic packet of a well-formed address.
C8_NoPartialSuccess ==
    /\ Rejected => (syscalls = <<>> /\ datagrams = <<>> /\ io = "none")
    /\ ~Accepted => (syscalls = <<>> /\ datagrams = <<>>)
    /\ \A k \in 1..Len(datagrams) :
         /\ WellFormed(Dashed(mac))
         /\ datagrams[k].payload = MagicOf(Dashed(mac))

C8_Witness ==
    /\ Rejected
    /\ pc = "exit"
    /\ output = "unable to create magic packet"

\* C9: changing the case of letters a-f / A-F of an input changes neither
\* whether it is accepted, nor the error, nor the value, nor the packet.
C9_CaseInsensitive ==
    Created =>
        LET lower == create_magic_packet(Lower(mac))
            upper == create_magic_packet(Upper(mac))
        IN  /\ result = lower.res /\ trace.eui = lower.eui
            /\ result = upper.res /\ trace.eui = upper.eui

C9_Witness ==
    /\ Accepted
    /\ \E k \in 1..Len(mac) : mac[k] \in 65..70
    /\ \E k \in 1..Len(mac) : mac[k] \in 97..102

\* C10: an input is accepted exactly when, with ':' read as '-', it is 17
\* chars with '-' at 2, 5, 8, 11, 14 and a hexadecimal digit everywhere else;
\* the to_digit fallback of the accumulation loop is never taken.
C10_ExactAcceptance ==
    Created =>
        /\ result.tag = "Ok" <=> WellFormed(Dashed(mac))
        /\ trace.site # "to_digit"

C10_Witness ==
    /\ Rejected
    /\ Len(mac) = 17
    /\ BadPositions(Dashed(mac)) = {}
    /\ \E k \in 1..17 : ~IsHexChar(mac[k]) /\ (k - 1) \notin SeparatorPositions

====
